---- MODULE Spec2Model ----
(***************************************************************************)
(* Model of the training core of VisualMesh (src/training/training.py):    *)
(*   - train(): the session start-up, the train/validate/save loop and the *)
(*     handler of the training iterator's exhaustion;                      *)
(*   - _build_training_graph(): one device op bundle per device and the    *)
(*     merge of the bundles (_merge_ops);                                  *)
(*   - _metrics(): the per-class and Global metrics of one batch.          *)
(* Tensors are modelled by the values they evaluate to.  A scalar is a     *)
(* rational [nan, n, d] (n/d, or NaN), because tf.divide and               *)
(* tf.reduce_mean are real divisions.                                      *)
(***************************************************************************)
EXTENDS Integers, Sequences, FiniteSets, TLC

\* ------------------------------------------------------------------ bounds
MaxFreq == 2          \* largest save_frequency / validation.frequency tried
MaxBatches == 3       \* largest number of batches per epoch tried
MaxEpochs == 2        \* largest config.training.epochs tried
MaxDevices == 2       \* largest number of devices (gpus) tried
MaxRestoreStep == 1   \* largest global step of a checkpoint found at start-up
MaxPoints == 2        \* largest number of points of a batch tried
NumClasses == 2       \* number of classes of config.network.classes tried
MaxLoss == 2          \* largest per-point cross-entropy tried
MaxRawPoints == 4     \* largest number of points of a batch before the alpha mask
MaxConv == 1          \* largest convolution index of a parameter name tried
MaxLayer == 1         \* largest layer index of a parameter name tried
MaxVars == 4          \* largest number of trainable parameters exported

VARIABLES
  config,           \* the run's configuration and environment (never changes)
  pc,               \* position of train() in its code
  global_step,      \* the global_step variable of the session
  params,           \* the trainable parameters of the session
  training_dataset, \* batches the training iterator can still deliver
  validation_draws, \* batches drawn from the validation iterator so far
  checkpoint,       \* the 'checkpoint' marker file of the output directory
  ckpt_files,       \* global steps naming the model.ckpt-<g> files written
  yaml_files,       \* global steps naming the model_<g>.yaml files written
  log,              \* the completed operations of train(), in order
  raised            \* the exception raised last ("none" when none was)

VARIABLES
  gpc,              \* position of _build_training_graph in its code
  device_ops,       \* the device op bundles built so far, one per device
  ops               \* the bundle the gradients are applied from

VARIABLES
  mpc,              \* position of _metrics in its code
  batch,            \* the (masked) batch _metrics is given
  metrics           \* the metrics mapping it returns

VARIABLES
  lpc,              \* position of _loss in its code
  loss_in,          \* the masked X, T, Y and the config _loss is given
  loss_out          \* the losses it returns

VARIABLES
  dpc,              \* position of _device_graph in its code
  data,             \* the batch of the device, before the alpha mask
  device_out        \* the masked batch, the losses and the metrics

VARIABLES
  spc,              \* position of the structure set-up in its code
  heap,             \* the list objects of the process, by address
  structures        \* the addresses the structure names are bound to

VARIABLES
  epc,              \* position of save_yaml_model in its code
  variables,        \* the trainable variables of the session, by name
  yaml              \* the outcome of the export

VARIABLES
  updated           \* the variables each optimiser application updated

trainVars == <<config, pc, global_step, params, training_dataset,
               validation_draws, checkpoint, ckpt_files, yaml_files, log,
               raised>>

graphVars == <<gpc, device_ops, ops>>

metricsVars == <<mpc, batch, metrics>>

lossVars == <<lpc, loss_in, loss_out>>

deviceVars == <<dpc, data, device_out>>

structVars == <<spc, heap, structures>>

exportVars == <<epc, variables, yaml>>

applyVars == <<updated>>

extVars == <<lossVars, deviceVars, structVars, exportVars, applyVars>>

vars == <<trainVars, graphVars, metricsVars, extVars>>

\* The parts of the program a run does not execute.
Unset == [none |-> TRUE]

LossIdle == lpc = "idle" /\ loss_in = Unset /\ loss_out = Unset

DeviceIdle == dpc = "idle" /\ data = <<>> /\ device_out = Unset

StructIdle == spc = "idle" /\ heap = <<>> /\ structures = Unset

ExportIdle == epc = "idle" /\ variables = {} /\ yaml = Unset

ApplyIdle == updated = Unset

ExtIdle == LossIdle /\ DeviceIdle /\ StructIdle /\ ExportIdle /\ ApplyIdle

\* ------------------------------------------------------------ tensor values
\* A scalar n/d; R(n, 1) is the number n.
R(n, d) == [nan |-> FALSE, n |-> n, d |-> d]

NaN == [nan |-> TRUE, n |-> 0, d |-> 1]

\* Python's None, the absent gradient.
None == [none |-> TRUE]

\* The same number (NaN taken as one value).
RatEq(x, y) == x.nan = y.nan /\ (~x.nan => x.n * y.d = y.n * x.d)

RAdd(x, y) ==
  IF x.nan \/ y.nan THEN NaN ELSE R(x.n * y.d + y.n * x.d, x.d * y.d)

\* tf.add_n of a list of scalars.
RECURSIVE add_n(_)
add_n(xs) == IF Len(xs) = 0 THEN R(0, 1)
             ELSE RAdd(xs[1], add_n(Tail(xs)))

\* tf.add_n of a list of counts.
RECURSIVE add_n_int(_)
add_n_int(xs) == IF Len(xs) = 0 THEN 0 ELSE xs[1] + add_n_int(Tail(xs))

\* tf.divide(x, k) and x / k for a scalar x and a count k.
divide(x, k) ==
  IF x.nan \/ (x.n = 0 /\ k = 0) THEN NaN ELSE R(x.n, x.d * k)

\* tf.count_nonzero of a scalar: NaN is not equal to 0.
count_nonzero_scalar(x) == IF x.nan \/ x.n # 0 THEN 1 ELSE 0

\* tf.count_nonzero of a vector of integers.
count_nonzero(v) == Len(SelectSeq(v, LAMBDA e : e # 0))

\* tf.reduce_mean of a vector of numbers: NaN for the empty vector.
reduce_mean(v) == IF Len(v) = 0 THEN NaN ELSE R(add_n_int(v), Len(v))

\* ------------------------------------------------------------------ _metrics
\* config.network.classes: the names of the classes.
ClassNames == <<"ball", "goal", "line", "field", "environment">>

classes == SubSeq(ClassNames, 1, NumClasses)

\* A point of a batch: label = argmax(Y), pred = argmax(softmax(X)), loss =
\* its softmax cross-entropy.  A cross-entropy of 0 means the prediction is
\* the label.
Points ==
  { pt \in [label : 1..NumClasses, pred : 1..NumClasses, loss : 0..MaxLoss] :
      pt.loss = 0 => pt.pred = pt.label }

Batches == UNION { [1..n -> Points] : n \in 0..MaxPoints }

\* The metrics of class i: the confusion matrix from the 0/1 vectors
\* predictions and labels, and the mean loss of the points labelled i.
ClassMetrics(b, i) ==
  LET predictions == [p \in 1..Len(b) |-> IF b[p].pred = i THEN 1 ELSE 0]
      labels == [p \in 1..Len(b) |-> IF b[p].label = i THEN 1 ELSE 0]
      where == SelectSeq(b, LAMBDA pt : pt.label = i)
      gathered == [k \in 1..Len(where) |-> where[k].loss]
  IN [ loss |-> reduce_mean(gathered),
       tp |-> count_nonzero([p \in 1..Len(b) |-> predictions[p] * labels[p]]),
       tn |-> count_nonzero([p \in 1..Len(b) |->
                               (predictions[p] - 1) * (labels[p] - 1)]),
       fp |-> count_nonzero([p \in 1..Len(b) |->
                               predictions[p] * (labels[p] - 1)]),
       fn |-> count_nonzero([p \in 1..Len(b) |->
                               (predictions[p] - 1) * labels[p]]) ]

\* The Global loss as the code computes it: class_losses holds the nonzero
\* counts (0 or 1) of the class losses, not the losses.
GlobalLoss(m) ==
  LET class_losses == [i \in 1..Len(classes) |->
                         count_nonzero_scalar(m[classes[i]].loss)]
      active_classes == add_n_int([i \in 1..Len(classes) |->
                          IF class_losses[i] # 0 THEN 1 ELSE 0])
  IN divide(R(add_n_int(class_losses), 1), active_classes)

_metricsTpFromFp(b) ==
  LET m == [c \in {classes[i] : i \in 1..Len(classes)} |->
              ClassMetrics(b, CHOOSE i \in 1..Len(classes) : classes[i] = c)]
      global ==
        [ loss |-> GlobalLoss(m),
          tp |-> add_n_int([i \in 1..Len(classes) |-> m[classes[i]].fp]),
          tn |-> add_n_int([i \in 1..Len(classes) |-> m[classes[i]].tn]),
          fp |-> add_n_int([i \in 1..Len(classes) |-> m[classes[i]].fp]),
          fn |-> add_n_int([i \in 1..Len(classes) |-> m[classes[i]].fn]) ]
  IN [k \in DOMAIN m \cup {"Global"} |-> IF k = "Global" THEN global ELSE m[k]]

_metrics(b) ==
  LET m == [c \in {classes[i] : i \in 1..Len(classes)} |->
              ClassMetrics(b, CHOOSE i \in 1..Len(classes) : classes[i] = c)]
      global ==
        [ loss |-> GlobalLoss(m),
          tp |-> add_n_int([i \in 1..Len(classes) |-> m[classes[i]].tp]),
          tn |-> add_n_int([i \in 1..Len(classes) |-> m[classes[i]].tn]),
          fp |-> add_n_int([i \in 1..Len(classes) |-> m[classes[i]].fp]),
          fn |-> add_n_int([i \in 1..Len(classes) |-> m[classes[i]].fn]) ]
  IN [k \in DOMAIN m \cup {"Global"} |-> IF k = "Global" THEN global ELSE m[k]]

NoMetrics == [k \in {} |-> 0]

MetricsIdle ==
  /\ mpc = "idle"
  /\ batch = <<>>
  /\ metrics = NoMetrics

MetricsInit ==
  /\ mpc = "call"
  /\ batch \in Batches
  /\ metrics = NoMetrics

\* The call of _metrics on the batch.
Metrics ==
  /\ mpc = "call"
  /\ metrics' = _metrics(batch)
  /\ mpc' = "done"
  /\ UNCHANGED <<batch, trainVars, graphVars>>
  /\ UNCHANGED extVars

\* --------------------------------------------------------------------- _loss
\* The product of two scalars.
RMul(x, y) == IF x.nan \/ y.nan THEN NaN ELSE R(x.n * y.n, x.d * y.d)

Abs(x) == IF x < 0 THEN -x ELSE x

\* tf.where of a vector of booleans: the positions that hold, in order.
where(condition) ==
  SelectSeq([k \in 1..Len(condition) |-> k], LAMBDA p : condition[p])

\* A point of the masked batch as _loss sees it: label = argmax(Y), loss =
\* its softmax cross-entropy, tutor_label = half the squared distance between
\* Y and softmax(X), T = the sigmoid output of the tutor (never 0).  T and
\* tutor_label are counted in the same unit.
ErrorLevels ==
  { [loss |-> 0, tutor_label |-> 0], [loss |-> 1, tutor_label |-> 1],
    [loss |-> 2, tutor_label |-> 1], [loss |-> 2, tutor_label |-> 3] }

TutorOutputs == {1, 2}

LossPoints ==
  { [label |-> l, loss |-> e.loss, tutor_label |-> e.tutor_label, T |-> t] :
      l \in 1..NumClasses, e \in ErrorLevels, t \in TutorOutputs }

LossBatches == UNION { [1..n -> LossPoints] : n \in 0..MaxPoints }

\* config.training.tutor.threshold and config.training.tutor.base_weight.
Thresholds == {0, 1}

BaseWeights == {0, 1}

\* tf.losses.mean_squared_error: the sum of the squared differences over the
\* number of elements, 0 when there is no element.
mean_squared_error(predictions, labels) ==
  IF Len(predictions) = 0 THEN R(0, 1)
  ELSE R(add_n_int([k \in 1..Len(predictions) |->
                      (predictions[k] - labels[k]) * (predictions[k] - labels[k])]),
         Len(predictions))

\* The points whose tutor output is further than the threshold from its label.
tutor_idxAtThreshold(b, threshold) ==
  where([p \in 1..Len(b) |-> Abs(b[p].tutor_label - b[p].T) >= threshold])

tutor_idx(b, threshold) ==
  where([p \in 1..Len(b) |-> Abs(b[p].tutor_label - b[p].T) > threshold])

\* The tutor loss: over the selected points, or over all when none is selected.
tutor_loss(b, threshold) ==
  LET idx == tutor_idx(b, threshold)
      tutor_loss_cut ==
        mean_squared_error([k \in 1..Len(idx) |-> b[idx[k]].T],
                           [k \in 1..Len(idx) |-> b[idx[k]].tutor_label])
      tutor_loss_full ==
        mean_squared_error([p \in 1..Len(b) |-> b[p].T],
                           [p \in 1..Len(b) |-> b[p].tutor_label])
  IN IF Len(idx) = 0 THEN tutor_loss_full ELSE tutor_loss_cut

\* The loss weights of class i, one per point: scatters[i].
ClassWeights(b, base_weight, i) ==
  LET idx == where([p \in 1..Len(b) |-> b[p].label = i])
      pts == [k \in 1..Len(idx) |-> b[idx[k]].T + base_weight]
      total == add_n_int(pts)
  IN IF Len(idx) = 0 THEN [p \in 1..Len(b) |-> R(0, 1)]
     ELSE [p \in 1..Len(b) |->
             IF b[p].label = i THEN divide(R(b[p].T + base_weight, 1), total)
             ELSE R(0, 1)]

\* The number of classes with a nonzero weight vector.
active_classesAll(scatters) == Len(scatters)

active_classes(scatters) ==
  count_nonzero([i \in 1..Len(scatters) |->
    add_n_int([p \in 1..Len(scatters[i]) |->
                 count_nonzero_scalar(scatters[i][p])])])

\* The combined weight of every point: W.
CombinedWeights(b, base_weight) ==
  LET scatters == [i \in 1..Len(classes) |-> ClassWeights(b, base_weight, i)]
  IN [p \in 1..Len(b) |->
        divide(add_n([i \in 1..Len(classes) |-> scatters[i][p]]),
               active_classes(scatters))]

_loss(b, cfg) ==
  LET unweighted_mesh_loss == [p \in 1..Len(b) |-> b[p].loss]
      W == CombinedWeights(b, cfg.base_weight)
  IN [ u |-> reduce_mean(unweighted_mesh_loss),
       x |-> add_n([p \in 1..Len(b) |->
                      RMul(R(unweighted_mesh_loss[p], 1), W[p])]),
       t |-> tutor_loss(b, cfg.threshold) ]

LossInit ==
  /\ lpc = "call"
  /\ loss_in \in [batch : LossBatches, threshold : Thresholds,
                  base_weight : BaseWeights]
  /\ loss_out = Unset

\* The call of _loss; the class weight vectors and W are kept beside the
\* three losses.
Loss ==
  /\ lpc = "call"
  /\ loss_out' =
       [ loss |-> _loss(loss_in.batch, loss_in),
         scatters |-> [i \in 1..Len(classes) |->
                         ClassWeights(loss_in.batch, loss_in.base_weight, i)],
         W |-> CombinedWeights(loss_in.batch, loss_in.base_weight) ]
  /\ lpc' = "done"
  /\ UNCHANGED <<loss_in, trainVars, graphVars, metricsVars, deviceVars,
                 structVars, exportVars, applyVars>>

\* ------------------------------------------------- _device_graph: AlphaMask
\* One point of the batch a device draws: the logits X of the network for it
\* (the class they predict and how far they are from it), its label Y and the
\* output T of the tutor.
DeviceRows ==
  { [X |-> [pred |-> 1, level |-> 1], Y |-> 1, T |-> 1],
    [X |-> [pred |-> 1, level |-> 2], Y |-> 2, T |-> 2],
    [X |-> [pred |-> 2, level |-> 1], Y |-> 1, T |-> 2] }

\* data['W'], the validity weight of a point.
Alphas == {0, 1}

\* The batches of at most MaxRawPoints points, as the vectors X, Y, T and W.
DeviceData ==
  UNION { { [ X |-> [p \in 1..n |-> rows[p].X], Y |-> [p \in 1..n |-> rows[p].Y],
              T |-> [p \in 1..n |-> rows[p].T], W |-> w ] :
              rows \in [1..n -> DeviceRows], w \in [1..n -> Alphas] } :
          n \in 0..MaxRawPoints }

\* config.training.tutor of the device graph.
DeviceConfig == [threshold |-> 0, base_weight |-> 1]

\* tf.gather_nd of a vector at a list of indices.
gather_nd(v, idx) == [k \in 1..Len(idx) |-> v[idx[k]]]

\* S: the indices of the points to keep.
AlphaMaskNone(W) == where([p \in 1..Len(W) |-> W[p] >= 0])

AlphaMask(W) == where([p \in 1..Len(W) |-> W[p] > 0])

\* What _loss and _metrics derive from the logits and the label of a point.
softmax_cross_entropy(x, y) == IF x.pred = y THEN 0 ELSE x.level

tutor_labels(x, y) == IF x.pred = y THEN 0 ELSE x.level

\* The losses and metrics of a device for the batch it drew.
DeviceResult(dat, cfg) ==
  LET S == AlphaMask(dat.W)
      X == gather_nd(dat.X, S)
      Y == gather_nd(dat.Y, S)
      T == gather_nd(dat.T, S)
      b == [k \in 1..Len(S) |->
              [ label |-> Y[k], pred |-> X[k].pred,
                loss |-> softmax_cross_entropy(X[k], Y[k]),
                tutor_label |-> tutor_labels(X[k], Y[k]), T |-> T[k] ]]
  IN [ X |-> X, Y |-> Y, T |-> T, loss |-> _loss(b, cfg),
       metrics |-> _metrics(b) ]

DeviceInit ==
  /\ dpc = "call"
  /\ data \in DeviceData
  /\ device_out = Unset

\* The call of _device_graph on the batch drawn.
DeviceMask ==
  /\ dpc = "call"
  /\ device_out' = DeviceResult(data, DeviceConfig)
  /\ dpc' = "done"
  /\ UNCHANGED <<data, trainVars, graphVars, metricsVars, lossVars,
                 structVars, exportVars, applyVars>>

\* ------------------------------------- _build_training_graph: the structures
\* Python lists live in a heap: an address is a position of the heap, the
\* object there is a list; the items of a structure are the addresses of its
\* stages, the items of a stage are its layer widths.

\* The values of config.network.structure and config.training.tutor.structure
\* tried.
BaseStructures ==
  { <<<<2>>>>, <<<<2>>, <<3>>>>, <<<<2, 3>>, <<>>>>, <<<<3>>, <<2>>>> }

\* The heap h with the structure of value v loaded into it, and its address.
Store(h, v) ==
  [ heap |-> h \o [k \in 1..Len(v) |-> [items |-> v[k]]]
               \o <<[items |-> [k \in 1..Len(v) |-> Len(h) + k]]>>,
    addr |-> Len(h) + Len(v) + 1 ]

\* copy.copy of the structure at a: a new outer list of the same stages.
deepcopyShallow(h, a) ==
  [ heap |-> Append(h, h[a]), addr |-> Len(h) + 1 ]

\* copy.deepcopy of the structure at a: new stages (one per distinct stage
\* object) and a new outer list of them.
deepcopy(h, a) ==
  LET src == h[a].items
      First(k) == CHOOSE j \in 1..k :
                    src[j] = src[k] /\ \A i \in 1..(j - 1) : src[i] # src[k]
  IN [ heap |-> h \o [k \in 1..Len(src) |-> h[src[k]]]
                  \o <<[items |-> [k \in 1..Len(src) |-> Len(h) + First(k)]]>>,
       addr |-> Len(h) + Len(src) + 1 ]

\* structure[-1].append(width) for the structure at a.
AppendOutput(h, a, width) ==
  LET last == h[a].items[Len(h[a].items)]
  IN [h EXCEPT ![last].items = Append(@, width)]

\* The configuration as loaded: the network structure, and for the tutor no
\* 'structure' key (0), the network's structure object itself (an alias), or
\* a structure of its own.
TutorStructures ==
  { [kind |-> k, value |-> <<>>] : k \in {"absent", "alias"} }
    \cup { [kind |-> "own", value |-> v] : v \in BaseStructures }

StructInit ==
  /\ spc = "copy_network"
  /\ \E v \in BaseStructures : \E t \in TutorStructures :
       LET n == Store(<<>>, v)
           c == IF t.kind = "own" THEN Store(n.heap, t.value) ELSE n
       IN /\ heap = c.heap
          /\ structures =
               [ config_network |-> n.addr,
                 config_tutor |-> IF t.kind = "absent" THEN 0 ELSE c.addr,
                 network_structure |-> 0, tutor_structure |-> 0,
                 passed |-> <<>>, loaded |-> c.heap ]

\* network_structure = copy.deepcopy(config.network.structure)
CopyNetworkStructure ==
  /\ spc = "copy_network"
  /\ LET c == deepcopy(heap, structures.config_network)
     IN /\ heap' = c.heap
        /\ structures' = [structures EXCEPT !.network_structure = c.addr]
  /\ spc' = "copy_tutor"
  /\ UNCHANGED <<trainVars, graphVars, metricsVars, lossVars, deviceVars,
                 exportVars, applyVars>>

\* tutor_structure = the copy of the tutor's structure if configured, else
\* of network_structure
CopyTutorStructure ==
  /\ spc = "copy_tutor"
  /\ LET c == IF structures.config_tutor # 0
              THEN deepcopy(heap, structures.config_tutor)
              ELSE deepcopy(heap, structures.network_structure)
     IN /\ heap' = c.heap
        /\ structures' = [structures EXCEPT !.tutor_structure = c.addr]
  /\ spc' = "append_network"
  /\ UNCHANGED <<trainVars, graphVars, metricsVars, lossVars, deviceVars,
                 exportVars, applyVars>>

\* network_structure[-1].append(len(config.network.classes))
AppendNetworkOutput ==
  /\ spc = "append_network"
  /\ heap' = AppendOutput(heap, structures.network_structure, Len(classes))
  /\ spc' = "append_tutor"
  /\ UNCHANGED <<structures, trainVars, graphVars, metricsVars, lossVars,
                 deviceVars, exportVars, applyVars>>

\* tutor_structure[-1].append(1)
AppendTutorOutput ==
  /\ spc = "append_tutor"
  /\ heap' = AppendOutput(heap, structures.tutor_structure, 1)
  /\ spc' = "devices"
  /\ UNCHANGED <<structures, trainVars, graphVars, metricsVars, lossVars,
                 deviceVars, exportVars, applyVars>>

\* One turn of the loop over the devices: _device_graph is handed the two
\* structures, which it reads.
DeviceStructures ==
  /\ spc = "devices"
  /\ structures' =
       [structures EXCEPT !.passed =
          Append(@, <<structures.network_structure, structures.tutor_structure>>)]
  /\ spc' = IF Len(structures.passed) + 1 = config.gpus THEN "done"
            ELSE "devices"
  /\ UNCHANGED <<heap, trainVars, graphVars, metricsVars, lossVars,
                 deviceVars, exportVars, applyVars>>

\* ----------------------------------------------------------- save_yaml_model
\* The name of a trainable parameter, scope/Conv_<conv>/Layer_<layer>/role:0,
\* as its parts.
NetworkNames ==
  [ scope : {"Network"}, conv : 0..MaxConv, layer : 0..MaxLayer,
    role : {"Weights", "Biases"} ]

\* Names the pattern does not match.
OtherNames ==
  { [scope |-> "Tutor", conv |-> 0, layer |-> 0, role |-> "Weights"],
    [scope |-> "Network", conv |-> 0, layer |-> 0, role |-> "Kernel"] }

VariableSets ==
  { vs \in SUBSET (NetworkNames \cup OtherNames) : Cardinality(vs) <= MaxVars }

\* sess.run(v): the value of the parameter named k, its own.
Value(k) == [of |-> k]

\* re.match of the pattern against a name.
Match(k) == k.scope = "Network" /\ k.role \in {"Weights", "Biases"}

\* str.lower of the role.
Lower(role) == IF role = "Weights" THEN "weights" ELSE "biases"

\* The order of Python on the keys (c, l, var): "biases" < "weights".
KeyLess(a, b) ==
  \/ a.c < b.c
  \/ a.c = b.c /\ a.l < b.l
  \/ a.c = b.c /\ a.l = b.l /\ a.var = "biases" /\ b.var = "weights"

\* sorted(items) for items of distinct keys.
RECURSIVE sorted(_)
sorted(items) ==
  IF items = {} THEN <<>>
  ELSE LET first == CHOOSE i \in items :
                      \A j \in items \ {i} : KeyLess(i.k, j.k)
       IN <<first>> \o sorted(items \ {first})

\* d[var] = v for a dict d.
SetItem(d, var, v) ==
  [key \in DOMAIN d \cup {var} |-> IF key = var THEN v ELSE d[key]]

EmptyDict == [key \in {} |-> Unset]

\* One turn of the loop over the sorted items; st holds output, conv, layer
\* and the exception raised, if any.
ExportItem(st, item) ==
  LET c == item.k.c
      l == item.k.l
      new_conv == c # st.conv
      output1 == IF new_conv THEN Append(st.output, <<>>) ELSE st.output
      layer1 == IF new_conv THEN -1 ELSE st.layer
      output2 == IF l # layer1
                 THEN [output1 EXCEPT ![Len(output1)] = Append(@, EmptyDict)]
                 ELSE output1
  IN IF st.raised # "none" THEN st
     ELSE IF c + 1 > Len(output2) \/ l + 1 > Len(output2[c + 1])
     THEN [st EXCEPT !.raised = "IndexError"]
     ELSE [ output |-> [output2 EXCEPT ![c + 1][l + 1] =
                          SetItem(@, item.k.var, item.v)],
            conv |-> c, layer |-> l, raised |-> "none" ]

RECURSIVE ExportLoop(_, _)
ExportLoop(st, items) ==
  IF Len(items) = 0 THEN st
  ELSE ExportLoop(ExportItem(st, Head(items)), Tail(items))

\* The structure dumped to the file, or the exception that leaves the
\* function before the file is opened.
save_yaml_model(vs) ==
  LET items == { [k |-> [c |-> k.conv, l |-> k.layer, var |-> Lower(k.role)],
                  v |-> Value(k)] : k \in { n \in vs : Match(n) } }
      st == ExportLoop([output |-> <<>>, conv |-> -1, layer |-> -1,
                        raised |-> "none"], sorted(items))
  IN IF st.raised = "none" THEN [raised |-> "none", output |-> st.output]
     ELSE [raised |-> st.raised, output |-> <<>>]

ExportInit ==
  /\ epc = "call"
  /\ variables \in VariableSets
  /\ yaml = Unset

\* The call of save_yaml_model.
SaveYamlModel ==
  /\ epc = "call"
  /\ yaml' = save_yaml_model(variables)
  /\ epc' = "done"
  /\ UNCHANGED <<variables, trainVars, graphVars, metricsVars, lossVars,
                 deviceVars, structVars, applyVars>>

\* ------------------------------------------------------- the output directory
\* No 'checkpoint' file in the output directory.
NoCheckpoint == [state |-> "absent", step |-> 0, net |-> 0, tutor |-> 0]

\* A 'checkpoint' file naming a checkpoint that cannot be restored.
CorruptCheckpoint == [state |-> "corrupt", step |-> 0, net |-> 0, tutor |-> 0]

\* The freshly initialised trainable parameters: the number of updates each
\* group has received (0 updates).
FreshParams == [net |-> 0, tutor |-> 0]

\* The variables the saver saves and restores: the trainable variables and
\* the global step.
SaveVarsNoStep == {"trainable_variables"}

SaveVars == {"trainable_variables", "global_step"}

\* What saver.save writes: every trainable variable and the global step.
Saved(g, p) == [state |-> "valid", step |-> g, net |-> p.net, tutor |-> p.tutor]

\* The checkpoints an earlier run may have left: saved at step g, with
\* parameters that are not the fresh ones.
EarlierCheckpoints ==
  { Saved(g, [net |-> g + 1, tutor |-> g + 1]) : g \in 0..MaxRestoreStep }

Configs ==
  [ save_frequency : 1..MaxFreq,
    validation_frequency : 1..MaxFreq,
    batches : 0..MaxBatches,
    epochs : 1..MaxEpochs,
    gpus : 1..MaxDevices,
    validation_empty : BOOLEAN,
    checkpoint0 : {NoCheckpoint, CorruptCheckpoint} \cup EarlierCheckpoints ]

\* ------------------------------------------------------------- train(): helpers
\* The names bound in the scope of train() when the loop runs.
LocalNames ==
  { "config", "output_path", "gpus", "ops", "global_step", "summary_writer",
    "save_vars", "saver", "training_dataset", "training_ds_stats",
    "validation_dataset", "image_dataset", "tf_config", "sess", "model_path",
    "checkpoint_file", "training_handle", "validation_handle", "image_handle",
    "start", "output", "end" }

\* The names bound at module level of training.py.
ModuleNames ==
  { "os", "sys", "random", "tf", "device_lib", "copy", "yaml", "re", "io",
    "cv2", "time", "np", "mpl", "plt", "network", "dataset",
    "save_yaml_model", "MeshDrawer", "_device_graph", "_loss", "_metrics",
    "_merge_ops", "_build_training_graph", "train", "print" }

\* Name lookup: every name of a statement is bound in one of the scopes.
Bound(names) == names \subseteq (LocalNames \cup ModuleNames)

\* The names read by the final validation of the exhaustion handler.
ValidationNames ==
  { "sess", "validation_summary", "net", "validation_handle",
    "summary_writer", "tf", "global_step" }

\* The names read by the final image pass of the exhaustion handler.
ImageNames ==
  { "sess", "image_summary", "net", "image_handle", "summary_writer", "tf",
    "global_step" }

\* dataset.repeat(epochs): the batches of one epoch, epochs times.
Repeat(batches, epochs) == batches * epochs

\* The except clause of the loop: the exceptions it catches.
CaughtAny(exc) == TRUE

Caught(exc) == exc = "OutOfRangeError"

\* The batches one run of the graph draws from the iterator it is fed from:
\* every device calls iterator.get_next() for itself.
DrawsPerStepOne(gpus) == 1

DrawsPerStep(gpus) == gpus

\* optimise_mesh_op: apply_gradients(..., global_step=global_step).
OptimiseMeshStep(g) == g + 1

\* optimise_tutor_op: apply_gradients(...) without a global_step.
OptimiseTutorStepCounting(g) == g + 1

OptimiseTutorStep(g) == g

\* The two conditions of the loop body.
ValidationDueOnSave(g) == g % config.save_frequency = 0

ValidationDue(g) == g % config.validation_frequency = 0

SaveDueOnValidation(g) == g % config.validation_frequency = 0

SaveDue(g) == g % config.save_frequency = 0

\* The file names of a save point.
CheckpointName(g) == g

YamlName(g) == g

Event(op, g) == [op |-> op, g |-> g]

\* ---------------------------------------------- _build_training_graph
\* tf.trainable_variables(): compute_gradients returns one entry per trainable
\* variable, of the network and of the tutor, in this order.
TrainableVariables ==
  << [scope |-> "Network", name |-> "Conv_0/Layer_0/Weights:0"],
     [scope |-> "Tutor", name |-> "Conv_0/Layer_0/Weights:0"] >>

\* The parameter reference of the entry at position p on device d.
VarRef(p, d) ==
  [scope |-> TrainableVariables[p].scope, name |-> TrainableVariables[p].name,
   tower |-> d]

\* The values a gradient takes: absent, or a number.
GradValues == {None, R(1, 1), R(2, 1)}

\* The gradient lists of the weighted mesh loss on device d.
XGradLists(d) ==
  { [p \in 1..Len(TrainableVariables) |-> <<g[p], VarRef(p, d)>>] :
      g \in [1..Len(TrainableVariables) -> GradValues] }

\* The gradient lists of the tutor loss on device d: it does not depend on
\* the variables of the network.
TGradLists(d) ==
  { [p \in 1..Len(TrainableVariables) |->
       << IF TrainableVariables[p].scope = "Tutor" THEN v ELSE None,
          VarRef(p, d) >>] : v \in {None, R(2, 1)} }

\* What a device computes from its batch besides the metrics: the batch and
\* the weighted and tutor losses.
DeviceFixtures ==
  { [ batch |-> <<[label |-> 1, pred |-> 1, loss |-> 1]>>,
      x_loss |-> R(1, 1), t_loss |-> R(0, 1) ],
    [ batch |-> << [label |-> 1, pred |-> 2, loss |-> 2],
                   [label |-> 2, pred |-> 2, loss |-> 0] >>,
      x_loss |-> R(3, 2), t_loss |-> R(1, 4) ] }

\* The device op bundle of device d.
_device_graph(d, f, x_grads, t_grads) ==
  [ data |-> [batch |-> f.batch, tower |-> d],
    X |-> [tensor |-> "X", tower |-> d],
    T |-> [tensor |-> "T", tower |-> d],
    loss |-> [ u |-> reduce_mean([p \in 1..Len(f.batch) |-> f.batch[p].loss]),
               x |-> f.x_loss,
               t |-> f.t_loss ],
    grads |-> [x |-> x_grads, t |-> t_grads],
    metrics |-> _metrics(f.batch) ]

\* zip(*lists): as long as the shortest list.
RECURSIVE MinLen(_)
MinLen(lists) ==
  IF Len(lists) = 0 THEN 0
  ELSE IF Len(lists) = 1 THEN Len(lists[1])
  ELSE LET m == MinLen(Tail(lists))
       IN IF Len(lists[1]) < m THEN Len(lists[1]) ELSE m

zip(lists) ==
  [p \in 1..MinLen(lists) |-> [d \in 1..Len(lists) |-> lists[d][p]]]

\* The entries of one parameter that _merge_ops keeps.
AnyNone(grads) == \E d \in 1..Len(grads) : grads[d][1] = None

\* The merge of the gradient lists of the devices.
MergeGradsUndivided(lists) ==
  LET kept == SelectSeq(zip(lists), LAMBDA grads : ~AnyNone(grads))
  IN [k \in 1..Len(kept) |->
        << add_n([d \in 1..Len(lists) |-> kept[k][d][1]]), kept[k][1][2] >>]

MergeGrads(lists) ==
  LET kept == SelectSeq(zip(lists), LAMBDA grads : ~AnyNone(grads))
  IN [k \in 1..Len(kept) |->
        << divide(add_n([d \in 1..Len(lists) |-> kept[k][d][1]]), Len(lists)),
           kept[k][1][2] >>]

\* _merge_metrics and the division of every loss by the number of devices.
_merge_metrics(ms) ==
  [k \in DOMAIN ms[1] |->
     [ loss |-> divide(add_n([d \in 1..Len(ms) |-> ms[d][k].loss]), Len(ms)),
       tp |-> add_n_int([d \in 1..Len(ms) |-> ms[d][k].tp]),
       tn |-> add_n_int([d \in 1..Len(ms) |-> ms[d][k].tn]),
       fp |-> add_n_int([d \in 1..Len(ms) |-> ms[d][k].fp]),
       fn |-> add_n_int([d \in 1..Len(ms) |-> ms[d][k].fn]) ]]

_merge_ops(dops) ==
  LET n == Len(dops)
  IN [ data |-> [list |-> [d \in 1..n |-> dops[d].data]],
       X |-> [list |-> [d \in 1..n |-> dops[d].X]],
       T |-> [list |-> [d \in 1..n |-> dops[d].T]],
       loss |-> [ u |-> divide(add_n([d \in 1..n |-> dops[d].loss.u]), n),
                  x |-> divide(add_n([d \in 1..n |-> dops[d].loss.x]), n),
                  t |-> divide(add_n([d \in 1..n |-> dops[d].loss.t]), n) ],
       grads |-> [ x |-> MergeGrads([d \in 1..n |-> dops[d].grads.x]),
                   t |-> MergeGrads([d \in 1..n |-> dops[d].grads.t]) ],
       metrics |-> _merge_metrics([d \in 1..n |-> dops[d].metrics]) ]

\* "If we have multiple GPUs we need to do a merge operation, otherwise just
\* take the element".
MergedOpsAlways(dops) == _merge_ops(dops)

MergedOps(dops) == IF Len(dops) > 1 THEN _merge_ops(dops) ELSE dops[1]

NoOps == [none |-> TRUE]

GraphIdle ==
  /\ gpc = "idle"
  /\ device_ops = <<>>
  /\ ops = NoOps

\* One pass of the loop over the devices: the device op bundle of the next
\* device.
DeviceGraph ==
  /\ gpc = "devices"
  /\ Len(device_ops) < config.gpus
  /\ \E f \in DeviceFixtures :
       \E x_grads \in XGradLists(Len(device_ops) + 1) :
         \E t_grads \in TGradLists(Len(device_ops) + 1) :
           device_ops' = Append(device_ops,
             _device_graph(Len(device_ops) + 1, f, x_grads, t_grads))
  /\ UNCHANGED <<gpc, ops, trainVars, metricsVars>>
  /\ UNCHANGED extVars

\* The merge of the bundles once every device has its own.
MergeOps ==
  /\ gpc = "devices"
  /\ Len(device_ops) = config.gpus
  /\ ops' = MergedOps(device_ops)
  /\ gpc' = "merged"
  /\ UNCHANGED <<device_ops, trainVars, metricsVars>>
  /\ UNCHANGED extVars

\* ------------------------------------------------ gradients and their use
\* The scopes whose variables a tensor is differentiable in.  The network X
\* is built from the variables of 'Network', the tutor T from those of
\* 'Tutor'; tf.stop_gradient cuts the dependence.
stop_gradientMissing(deps) == deps

stop_gradient(deps) == {}

\* weighted_mesh_loss: the cross-entropy of X times stop_gradient(W), W made
\* of T.
x_loss_deps == {"Network"} \cup stop_gradient({"Tutor"})

\* tutor_loss: the squared error of T against stop_gradient(tutor_labels),
\* the labels made of X.
t_loss_deps == {"Tutor"} \cup stop_gradient({"Network"})

\* optimiser.compute_gradients(loss) on device d: an entry for every
\* trainable variable, None where the loss does not depend on it.
compute_gradients(deps, d) ==
  { [p \in 1..Len(TrainableVariables) |->
       << IF TrainableVariables[p].scope \in deps THEN v ELSE None,
          VarRef(p, d) >>] : v \in {R(1, 1), R(2, 1)} }

\* optimiser.apply_gradients(grads_and_vars): the variables it changes, those
\* of the entries whose gradient is not None.
apply_gradients(grads_and_vars) ==
  { [ scope |-> grads_and_vars[k][2].scope, name |-> grads_and_vars[k][2].name ] :
      k \in { j \in 1..Len(grads_and_vars) : grads_and_vars[j][1] # None } }

\* One pass of the loop over the devices, the gradients taken of the losses.
DeviceGradients ==
  /\ gpc = "devices"
  /\ Len(device_ops) < config.gpus
  /\ \E f \in DeviceFixtures :
       \E x_grads \in compute_gradients(x_loss_deps, Len(device_ops) + 1) :
         \E t_grads \in compute_gradients(t_loss_deps, Len(device_ops) + 1) :
           device_ops' = Append(device_ops,
             _device_graph(Len(device_ops) + 1, f, x_grads, t_grads))
  /\ UNCHANGED <<gpc, ops, trainVars, metricsVars>>
  /\ UNCHANGED extVars

\* optimise_mesh_op and optimise_tutor_op: what a run of each changes.
ApplyGradients ==
  /\ gpc = "merged"
  /\ updated' = [ mesh |-> apply_gradients(ops.grads.x),
                  tutor |-> apply_gradients(ops.grads.t) ]
  /\ gpc' = "applied"
  /\ UNCHANGED <<device_ops, ops, trainVars, metricsVars, lossVars,
                 deviceVars, structVars, exportVars>>

TrainInit ==
  /\ config \in Configs
  /\ pc = "start"
  /\ global_step = 0
  /\ params = FreshParams
  /\ training_dataset = 0
  /\ validation_draws = 0
  /\ checkpoint = config.checkpoint0
  /\ ckpt_files = IF config.checkpoint0.state = "valid"
                  THEN {config.checkpoint0.step} ELSE {}
  /\ yaml_files = {}
  /\ log = <<>>
  /\ raised = "none"

Init == TrainInit /\ GraphIdle /\ MetricsIdle /\ ExtIdle

\* An exception leaves the try block: the handler of the loop takes it when
\* the except clause catches it, otherwise it leaves train().
Raise(exc) ==
  /\ raised' = exc
  /\ pc' = IF Caught(exc) THEN "exhausted" ELSE "error"

\* Session start-up: initialise the variables, restore the latest checkpoint
\* when the marker file exists, initialise the training iterator.
Startup ==
  /\ pc = "start"
  /\ IF checkpoint.state = "absent"
     THEN /\ global_step' = 0
          /\ params' = FreshParams
          /\ training_dataset' = Repeat(config.batches, config.epochs)
          /\ pc' = "train"
          /\ UNCHANGED raised
     ELSE IF checkpoint.state = "valid"
     THEN /\ global_step' = IF "global_step" \in SaveVars
                            THEN checkpoint.step ELSE 0
          /\ params' = [net |-> checkpoint.net, tutor |-> checkpoint.tutor]
          /\ training_dataset' = Repeat(config.batches, config.epochs)
          /\ pc' = "train"
          /\ UNCHANGED raised
     ELSE /\ pc' = "error"
          /\ raised' = "RestoreError"
          /\ UNCHANGED <<global_step, params, training_dataset>>
  /\ UNCHANGED <<graphVars, metricsVars>>
  /\ UNCHANGED <<config, validation_draws, checkpoint, ckpt_files, yaml_files,
                 log>>
  /\ UNCHANGED extVars

\* One training step: sess.run(ops['train']) against the training handle, the
\* summary and the printed batch line.  Every device draws one batch.
TrainStep ==
  /\ pc = "train"
  /\ \/ /\ training_dataset >= DrawsPerStep(config.gpus)
        /\ training_dataset' = training_dataset - DrawsPerStep(config.gpus)
        /\ params' = [net |-> params.net + 1, tutor |-> params.tutor + 1]
        /\ global_step' = OptimiseTutorStep(OptimiseMeshStep(global_step))
        /\ log' = Append(log, Event("train", global_step'))
        /\ pc' = "validate"
        /\ UNCHANGED raised
     \/ /\ training_dataset < DrawsPerStep(config.gpus)
        /\ training_dataset' = 0
        /\ Raise("OutOfRangeError")
        /\ UNCHANGED <<params, global_step, log>>
     \/ \* any other failure of the run; either optimiser may have been applied
        /\ \E drawn \in 0..DrawsPerStep(config.gpus), mesh \in BOOLEAN, tutor \in BOOLEAN :
             /\ drawn <= training_dataset
             /\ training_dataset' = training_dataset - drawn
             /\ params' = [net |-> params.net + (IF mesh THEN 1 ELSE 0),
                           tutor |-> params.tutor + (IF tutor THEN 1 ELSE 0)]
             /\ global_step' = IF mesh THEN OptimiseMeshStep(global_step)
                               ELSE global_step
        /\ Raise("RuntimeError")
        /\ UNCHANGED log
  /\ UNCHANGED <<graphVars, metricsVars>>
  /\ UNCHANGED <<config, validation_draws, checkpoint, ckpt_files, yaml_files>>
  /\ UNCHANGED extVars

\* "Every N steps do our validation/summary step".
ValidationStep ==
  /\ pc = "validate"
  /\ \/ /\ ~ValidationDue(global_step)
        /\ pc' = "save"
        /\ UNCHANGED <<validation_draws, log, raised>>
     \/ /\ ValidationDue(global_step)
        /\ ~config.validation_empty
        /\ validation_draws' = validation_draws + DrawsPerStep(config.gpus)
        /\ log' = Append(log, Event("validate", global_step))
        /\ pc' = "save"
        /\ UNCHANGED raised
     \/ /\ ValidationDue(global_step)
        /\ config.validation_empty
        /\ Raise("OutOfRangeError")
        /\ UNCHANGED <<validation_draws, log>>
     \/ /\ ValidationDue(global_step)
        /\ Raise("RuntimeError")
        /\ UNCHANGED <<validation_draws, log>>
  /\ UNCHANGED <<graphVars, metricsVars>>
  /\ UNCHANGED <<config, global_step, params, training_dataset, checkpoint,
                 ckpt_files, yaml_files>>
  /\ UNCHANGED extVars

\* "Every N steps save our model": saver.save.
SaveStep ==
  /\ pc = "save"
  /\ \/ /\ ~SaveDue(global_step)
        /\ pc' = "train"
        /\ UNCHANGED <<checkpoint, ckpt_files, log, raised>>
     \/ /\ SaveDue(global_step)
        /\ checkpoint' = Saved(global_step, params)
        /\ ckpt_files' = ckpt_files \cup {CheckpointName(global_step)}
        /\ log' = Append(log, Event("save", CheckpointName(global_step)))
        /\ pc' = "export"
        /\ UNCHANGED raised
     \/ /\ SaveDue(global_step)
        /\ Raise("RuntimeError")
        /\ UNCHANGED <<checkpoint, ckpt_files, log>>
  /\ UNCHANGED <<graphVars, metricsVars>>
  /\ UNCHANGED <<config, global_step, params, training_dataset,
                 validation_draws, yaml_files>>
  /\ UNCHANGED extVars

\* save_yaml_model right after saver.save.
ExportStep ==
  /\ pc = "export"
  /\ \/ /\ yaml_files' = yaml_files \cup {YamlName(global_step)}
        /\ log' = Append(log, Event("export", YamlName(global_step)))
        /\ pc' = "train"
        /\ UNCHANGED raised
     \/ /\ Raise("RuntimeError")
        /\ UNCHANGED <<yaml_files, log>>
  /\ UNCHANGED <<graphVars, metricsVars>>
  /\ UNCHANGED <<config, global_step, params, training_dataset,
                 validation_draws, checkpoint, ckpt_files>>
  /\ UNCHANGED extVars

\* The handler of the exhaustion: final validation, final images, final save
\* and export, 'Training done', break.  A statement that reads a name bound
\* nowhere raises NameError and ends the handler there.
WindDown ==
  /\ pc = "exhausted"
  /\ LET validated == Bound(ValidationNames)
         drawn == Bound(ValidationNames) /\ Bound(ImageNames)
         g == global_step
     IN /\ log' = log
                  \o (IF validated THEN <<Event("final_validate", g)>> ELSE <<>>)
                  \o (IF drawn
                      THEN <<Event("final_image", g),
                             Event("final_save", CheckpointName(g)),
                             Event("final_export", YamlName(g))>>
                      ELSE <<>>)
        /\ validation_draws' = IF validated
                               THEN validation_draws + DrawsPerStep(config.gpus)
                               ELSE validation_draws
        /\ checkpoint' = IF drawn THEN Saved(g, params) ELSE checkpoint
        /\ ckpt_files' = IF drawn THEN ckpt_files \cup {CheckpointName(g)}
                         ELSE ckpt_files
        /\ yaml_files' = IF drawn THEN yaml_files \cup {YamlName(g)}
                         ELSE yaml_files
        /\ pc' = IF drawn THEN "done" ELSE "error"
        /\ raised' = IF drawn THEN raised ELSE "NameError"
  /\ UNCHANGED <<graphVars, metricsVars>>
  /\ UNCHANGED <<config, global_step, params, training_dataset>>
  /\ UNCHANGED extVars

Next ==
  \/ Startup
  \/ TrainStep
  \/ ValidationStep
  \/ SaveStep
  \/ ExportStep
  \/ WindDown

Spec == Init /\ [][Next]_vars

\* The configurations of the runs that only build the graph or the metrics.
OneConfig(n) ==
  [ save_frequency |-> 1, validation_frequency |-> 1, batches |-> 0,
    epochs |-> 1, gpus |-> n, validation_empty |-> FALSE,
    checkpoint0 |-> NoCheckpoint ]

TrainIdle ==
  /\ pc = "idle"
  /\ global_step = 0
  /\ params = FreshParams
  /\ training_dataset = 0
  /\ validation_draws = 0
  /\ checkpoint = NoCheckpoint
  /\ ckpt_files = {}
  /\ yaml_files = {}
  /\ log = <<>>
  /\ raised = "none"

\* _build_training_graph on 1..MaxDevices devices.
GraphInit ==
  /\ config \in {OneConfig(n) : n \in 1..MaxDevices}
  /\ TrainIdle
  /\ MetricsIdle
  /\ ExtIdle
  /\ gpc = "devices"
  /\ device_ops = <<>>
  /\ ops = NoOps

GraphNext == DeviceGraph \/ MergeOps

SpecGraph == GraphInit /\ [][GraphNext]_vars

\* _metrics on every batch of at most MaxPoints points.
MetricsStart ==
  /\ config = OneConfig(1)
  /\ TrainIdle
  /\ GraphIdle
  /\ ExtIdle
  /\ MetricsInit

MetricsNext == Metrics

SpecMetrics == MetricsStart /\ [][MetricsNext]_vars

\* _loss on every batch of at most MaxPoints points.
LossStart ==
  /\ config = OneConfig(1)
  /\ TrainIdle
  /\ GraphIdle
  /\ MetricsIdle
  /\ DeviceIdle /\ StructIdle /\ ExportIdle /\ ApplyIdle
  /\ LossInit

LossNext == Loss

SpecLoss == LossStart /\ [][LossNext]_vars

\* _device_graph on every batch of at most MaxRawPoints points.
DeviceStart ==
  /\ config = OneConfig(1)
  /\ TrainIdle
  /\ GraphIdle
  /\ MetricsIdle
  /\ LossIdle /\ StructIdle /\ ExportIdle /\ ApplyIdle
  /\ DeviceInit

DeviceNext == DeviceMask

SpecDevice == DeviceStart /\ [][DeviceNext]_vars

\* The structures of _build_training_graph on 1..MaxDevices devices.
StructStart ==
  /\ config \in {OneConfig(n) : n \in 1..MaxDevices}
  /\ TrainIdle
  /\ GraphIdle
  /\ MetricsIdle
  /\ LossIdle /\ DeviceIdle /\ ExportIdle /\ ApplyIdle
  /\ StructInit

StructNext ==
  \/ CopyNetworkStructure
  \/ CopyTutorStructure
  \/ AppendNetworkOutput
  \/ AppendTutorOutput
  \/ DeviceStructures

SpecStructure == StructStart /\ [][StructNext]_vars

\* save_yaml_model on every set of at most MaxVars parameter names.
ExportStart ==
  /\ config = OneConfig(1)
  /\ TrainIdle
  /\ GraphIdle
  /\ MetricsIdle
  /\ LossIdle /\ DeviceIdle /\ StructIdle /\ ApplyIdle
  /\ ExportInit

ExportNext == SaveYamlModel

SpecExport == ExportStart /\ [][ExportNext]_vars

\* The gradients of the two losses on 1..MaxDevices devices, merged and
\* applied.
OptimiseNext == DeviceGradients \/ MergeOps \/ ApplyGradients

SpecOptimise == GraphInit /\ [][OptimiseNext]_vars

\* The metrics of one device on every batch, and the metrics of the devices
\* merged by _build_training_graph.
SpecMetricsMerge ==
  (MetricsStart \/ GraphInit) /\ [][MetricsNext \/ GraphNext]_vars

\* ---------------------------------------------------------- train(): claims
Count(l, op) == Len(SelectSeq(l, LAMBDA e : e.op = op))

IsTrain(i) == log[i].op = "train"

\* The operations logged after the training step at position i, up to the
\* next training step.
RECURSIVE IterationFrom(_)
IterationFrom(j) ==
  IF j > Len(log) \/ log[j].op = "train" THEN <<>>
  ELSE <<log[j]>> \o IterationFrom(j + 1)

\* The loop body started by the training step at position i ran to its end.
Completed(i) ==
  \/ \E j \in (i + 1)..Len(log) : IsTrain(j)
  \/ pc = "train"

WindDownOps == {"final_validate", "final_image", "final_save", "final_export"}

FinalCycle(g) ==
  << Event("final_validate", g), Event("final_image", g),
     Event("final_save", g), Event("final_export", g) >>

\* C1 (as claimed): when the training iterator signals exhaustion, the driver
\* does the final validation, the final image pass, the final checkpoint save
\* and export named by the current global step, in this order, and returns
\* normally.
C1_ExhaustionWindsDown ==
  [][ (pc = "exhausted" /\ ~config.validation_empty)
        => /\ pc' = "done"
           /\ log' = log \o FinalCycle(global_step) ]_vars

\* C2 (as claimed): on one device, B batches per epoch repeated E times give
\* exactly B*E training steps, then exactly one final validation+export cycle.
C2_StepsThenOneFinalCycle ==
  [][ (pc = "exhausted" /\ config.gpus = 1 /\ ~config.validation_empty)
        => /\ Count(log', "train") = config.batches * config.epochs
           /\ Count(log', "final_validate") = 1
           /\ Count(log', "final_save") = 1
           /\ Count(log', "final_export") = 1
           /\ pc' = "done" ]_vars

\* C3: the global step never decreases; a successful training step adds
\* exactly 1 to it; validation, save, export and the wind-down leave it as
\* it is.
C3_GlobalStepMonotonic ==
  [][ /\ global_step' >= global_step
      /\ (pc = "train" /\ pc' = "validate") => global_step' = global_step + 1
      /\ pc \in {"validate", "save", "export", "exhausted"}
           => global_step' = global_step ]_vars

C3_Witness ==
  /\ pc = "error"
  /\ raised = "NameError"
  /\ global_step >= 2
  /\ Count(log, "validate") >= 1
  /\ Count(log, "export") >= 1

\* C4: after a completed loop body whose training step reached global step g,
\* a checkpoint and an export were made iff g % save_frequency = 0, both named
\* g, the save right before the export and both before the next training
\* step; no export is ever made without the save of the same name before it.
C4_SaveAndExportEverySaveFrequency ==
  /\ \A i \in 1..Len(log) :
       (IsTrain(i) /\ Completed(i)) =>
         LET g == log[i].g
             saves == SelectSeq(IterationFrom(i + 1),
                                LAMBDA e : e.op \in {"save", "export"})
         IN /\ saves = IF g % config.save_frequency = 0
                       THEN <<Event("save", g), Event("export", g)>>
                       ELSE <<>>
            /\ (g % config.save_frequency = 0)
                 => (g \in ckpt_files /\ g \in yaml_files)
  /\ \A j \in 1..Len(log) :
       log[j].op = "export" => (j > 1 /\ log[j - 1] = Event("save", log[j].g))
  /\ pc = "export" => checkpoint = Saved(global_step, params)

C4_Witness ==
  /\ pc = "train"
  /\ config.save_frequency = 2
  /\ Len(log) >= 2
  /\ log[Len(log)] = Event("export", 2)
  /\ Count(log, "train") = 2
  /\ Count(log, "save") = 1

\* C5: after a completed loop body whose training step reached global step g,
\* a validation step was run (on the validation iterator, logged under g) iff
\* g % validation.frequency = 0, and it ran before the save of that step.
C5_ValidationEveryValidationFrequency ==
  /\ \A i \in 1..Len(log) :
       (IsTrain(i) /\ Completed(i)) =>
         LET g == log[i].g
             it == IterationFrom(i + 1)
         IN IF g % config.validation_frequency = 0
            THEN /\ Len(it) >= 1
                 /\ it[1] = Event("validate", g)
                 /\ \A k \in 2..Len(it) : it[k].op # "validate"
            ELSE \A k \in 1..Len(it) : it[k].op # "validate"
  /\ validation_draws = config.gpus * Count(log, "validate")
  /\ pc \in {"train", "validate", "save", "export"}
       => training_dataset + config.gpus * Count(log, "train")
            = config.batches * config.epochs

C5_Witness ==
  /\ pc = "train"
  /\ config.validation_frequency = 2
  /\ config.save_frequency = 2
  /\ Count(log, "train") = 2
  /\ Len(log) = 5
  /\ log[3] = Event("validate", 2)
  /\ log[4] = Event("save", 2)

\* C6: with a checkpoint marker the parameters and the global step are those
\* of the latest checkpoint before the first training step, which then reaches
\* g+1; without a marker nothing is restored, no error is raised and training
\* starts from fresh parameters at global step 0.
C6_RestoreOrFresh ==
  LET c0 == config.checkpoint0
  IN /\ (c0.state = "valid" /\ pc = "train" /\ log = <<>>)
          => /\ global_step = c0.step
             /\ params = [net |-> c0.net, tutor |-> c0.tutor]
     /\ (c0.state = "valid" /\ log # <<>>) => log[1] = Event("train", c0.step + 1)
     /\ (c0.state = "absent" /\ pc = "train" /\ log = <<>>)
          => /\ global_step = 0
             /\ params = FreshParams
     /\ (c0.state = "absent" /\ log # <<>>) => log[1] = Event("train", 1)
     /\ (c0.state = "absent" /\ pc # "start") => raised # "RestoreError"

C6_Witness ==
  /\ config.checkpoint0.state = "valid"
  /\ config.checkpoint0.step = 1
  /\ Len(log) >= 1
  /\ log[1] = Event("train", 2)
  /\ params.net = config.checkpoint0.net + 1

\* C7: a failure other than the exhaustion, raised by the training step, the
\* validation step, the save or the export, leaves train(): the run has ended
\* in error, nothing runs after it and no wind-down operation was made.
C7_OtherFailuresPropagate ==
  raised = "RuntimeError"
    => /\ pc = "error"
       /\ ~ENABLED Next
       /\ \A i \in 1..Len(log) : log[i].op \notin WindDownOps

C7_Witness ==
  /\ raised = "RuntimeError"
  /\ pc = "error"
  /\ Len(log) >= 2
  /\ log[Len(log)].op = "save"

\* ------------------------------------------- _build_training_graph: claims
\* The gradient lists the devices handed to the merge.
DeviceGrads(kind) == [d \in 1..Len(device_ops) |-> device_ops[d].grads[kind]]

\* Every device reported a gradient for the parameter at position p.
ReportedByAll(lists, p) == \A d \in 1..Len(lists) : lists[d][p][1] # None

\* The sum of the gradients the devices 1..d reported at position p.
RECURSIVE SumAt(_, _, _)
SumAt(lists, p, d) ==
  IF d = 0 THEN 0 ELSE lists[d][p][1].n + SumAt(lists, p, d - 1)

\* The merged list holds, in the order of the positions, one entry for each
\* parameter every device reported, and nothing else.
MergedAsClaimed(lists, merged) ==
  LET n == Len(lists)
      positions == 1..Len(TrainableVariables)
      kept == { p \in positions : ReportedByAll(lists, p) }
      rank(p) == Cardinality({ q \in kept : q <= p })
  IN /\ Len(merged) = Cardinality(kept)
     /\ \A p \in positions :
          (\E k \in 1..Len(merged) : merged[k][2] = lists[1][p][2])
            <=> ReportedByAll(lists, p)
     /\ \A p \in kept :
          /\ merged[rank(p)][2] = lists[1][p][2]
          /\ ~merged[rank(p)][1].nan
          /\ merged[rank(p)][1].n * n
               = SumAt(lists, p, n) * merged[rank(p)][1].d

\* C8: with N >= 2 devices a parameter is in the merged gradient list iff
\* every device reported a gradient for it; its merged gradient is the sum of
\* the N gradients divided by N, paired with the parameter reference of the
\* first device; for the main-network and for the tutor lists.
C8_MergedGradients ==
  (gpc = "merged" /\ Len(device_ops) >= 2)
    => /\ MergedAsClaimed(DeviceGrads("x"), ops.grads.x)
       /\ MergedAsClaimed(DeviceGrads("t"), ops.grads.t)

C8_Witness ==
  /\ gpc = "merged"
  /\ Len(device_ops) = 2
  /\ device_ops[1].grads.x[1][1] = R(1, 1)
  /\ device_ops[2].grads.x[1][1] = R(2, 1)
  /\ device_ops[1].grads.x[2][1] = R(1, 1)
  /\ device_ops[2].grads.x[2][1] = None
  /\ Len(ops.grads.x) = 1
  /\ Len(ops.grads.t) = 1

\* C9: with exactly one device the bundle the gradients are applied from is
\* the bundle of that device, every field unchanged, absent gradients
\* included.
C9_SingleDeviceIdentity ==
  (gpc = "merged" /\ Len(device_ops) = 1) => ops = device_ops[1]

C9_Witness ==
  /\ gpc = "merged"
  /\ Len(device_ops) = 1
  /\ ops.grads.x[2][1] = None
  /\ ops.grads.t[1][1] = None
  /\ ops.grads.x[1][1] # None

\* --------------------------------------------------------- _metrics: claims
\* The per-class losses of a metrics mapping, in the order of the classes.
ClassLosses(m) == [i \in 1..Len(classes) |-> m[classes[i]].loss]

\* C10 (as claimed): Global.loss is the sum of the per-class losses divided
\* by the number of classes whose loss is nonzero.
C10_GlobalLossIsNormalisedSum ==
  mpc = "done"
    => RatEq(metrics["Global"].loss,
             divide(add_n(ClassLosses(metrics)),
                    add_n_int([i \in 1..Len(classes) |->
                      count_nonzero_scalar(ClassLosses(metrics)[i])])))

\* The batch of two points, one of each class, with losses 2 and 1: the
\* claimed Global.loss is 3/2.
C10_FailingInput ==
  (mpc = "done" /\ batch = << [label |-> 1, pred |-> 2, loss |-> 2],
                             [label |-> 2, pred |-> 2, loss |-> 1] >>)
    => RatEq(metrics["Global"].loss, R(3, 2))

\* The sum of the values of field f of the classes 1..i of the mapping m.
RECURSIVE ClassSum(_, _, _)
ClassSum(m, f, i) ==
  IF i = 0 THEN 0 ELSE m[classes[i]][f] + ClassSum(m, f, i - 1)

GlobalCountsAreSums(m) ==
  \A f \in {"tp", "tn", "fp", "fn"} :
    m["Global"][f] = ClassSum(m, f, Len(classes))

\* C11: in the metrics mapping of a device and in the mapping merged from N
\* devices, Global.tp, Global.tn, Global.fp and Global.fn are the sums of the
\* values of the classes.
C11_GlobalCountsAreClassSums ==
  /\ mpc = "done" => GlobalCountsAreSums(metrics)
  /\ \A d \in 1..Len(device_ops) : GlobalCountsAreSums(device_ops[d].metrics)
  /\ gpc = "merged" => GlobalCountsAreSums(ops.metrics)

C11_Witness ==
  /\ gpc = "merged"
  /\ Len(device_ops) = 2
  /\ ops.metrics["Global"].tp = 2
  /\ ops.metrics["Global"].fp = 1
  /\ ops.metrics["Global"].fn = 1
  /\ ops.metrics["ball"].fn = 1

\* The points of batch b whose tutor output is further than thr from the label.
Exceeding(b, thr) ==
  { p \in 1..Len(b) : Abs(b[p].tutor_label - b[p].T) > thr }

RECURSIVE SquaredErrorOver(_, _)
SquaredErrorOver(b, S) ==
  IF S = {} THEN 0
  ELSE LET p == CHOOSE q \in S : TRUE
       IN (b[p].T - b[p].tutor_label) * (b[p].T - b[p].tutor_label)
            + SquaredErrorOver(b, S \ {p})

MeanSquaredErrorOver(b, S) ==
  IF S = {} THEN R(0, 1) ELSE R(SquaredErrorOver(b, S), Cardinality(S))

\* C13: the tutor loss is the mean squared error between T and the tutor
\* label over exactly the points with |tutor_label - T| > threshold when
\* there is such a point, and over all the points when there is none (every
\* point at the threshold included); it is never NaN.
C13_TutorLossSelection ==
  lpc = "done" =>
    LET b == loss_in.batch
        S == Exceeding(b, loss_in.threshold)
    IN /\ ~loss_out.loss.t.nan
       /\ RatEq(loss_out.loss.t,
                MeanSquaredErrorOver(b, IF S # {} THEN S ELSE 1..Len(b)))

\* Two points, one exactly at the threshold and one beyond it: the loss is
\* the squared error 4 of the second alone.
C13_Witness ==
  /\ lpc = "done"
  /\ loss_in.threshold = 1
  /\ Len(loss_in.batch) = 2
  /\ Abs(loss_in.batch[1].tutor_label - loss_in.batch[1].T) = 1
  /\ Abs(loss_in.batch[2].tutor_label - loss_in.batch[2].T) = 2
  /\ RatEq(loss_out.loss.t, R(4, 1))

\* The points of batch b truly labelled with class i.
ClassPoints(b, i) == { p \in 1..Len(b) : b[p].label = i }

RECURSIVE TutorWeightOver(_, _, _)
TutorWeightOver(b, bw, S) ==
  IF S = {} THEN 0
  ELSE LET p == CHOOSE q \in S : TRUE
       IN b[p].T + bw + TutorWeightOver(b, bw, S \ {p})

\* C14: the weight vector of a class with points is (T + base_weight) over
\* the class's sum of (T + base_weight) at the class's points and 0
\* elsewhere, so it sums to 1; the vector of a class without points is all
\* zero; the combined weight of a point is the sum of the class vectors
\* divided by the number of classes with a point, so the total is 1 when a
\* class is present.
C14_ClassWeightsNormalised ==
  lpc = "done" =>
    LET b == loss_in.batch
        bw == loss_in.base_weight
        present == { i \in 1..Len(classes) : ClassPoints(b, i) # {} }
    IN /\ \A i \in 1..Len(classes) :
            LET v == loss_out.scatters[i]
                P == ClassPoints(b, i)
            IN /\ Len(v) = Len(b)
               /\ \A p \in 1..Len(b) :
                    RatEq(v[p], IF p \in P
                                THEN R(b[p].T + bw, TutorWeightOver(b, bw, P))
                                ELSE R(0, 1))
               /\ P # {} => RatEq(add_n(v), R(1, 1))
       /\ Len(loss_out.W) = Len(b)
       /\ \A p \in 1..Len(b) :
            RatEq(loss_out.W[p],
                  divide(add_n([i \in 1..Len(classes) |->
                                  loss_out.scatters[i][p]]),
                         Cardinality(present)))
       /\ present # {} => RatEq(add_n(loss_out.W), R(1, 1))

\* Two points of the first class and none of the second: the weights 2/3 and
\* 1/3 are not diluted by the absent class.
C14_Witness ==
  /\ lpc = "done"
  /\ Len(loss_in.batch) = 2
  /\ loss_in.base_weight = 0
  /\ loss_in.batch[1].label = 1 /\ loss_in.batch[1].T = 2
  /\ loss_in.batch[2].label = 1 /\ loss_in.batch[2].T = 1
  /\ RatEq(loss_out.W[1], R(2, 3)) /\ RatEq(loss_out.W[2], R(1, 3))
  /\ RatEq(loss_out.scatters[2][1], R(0, 1))

\* The positions of the points of a batch with a positive validity weight.
Kept(dat) == { p \in 1..Len(dat.W) : dat.W[p] > 0 }

\* The batch with the point at position p replaced by the row r.
Replaced(dat, p, r) ==
  [ dat EXCEPT !.X[p] = r.X, !.Y[p] = r.Y, !.T[p] = r.T ]

\* C12: exactly the points with W > 0 are kept, in their order, X, Y and T
\* at the same indices, and the losses and metrics are those of the kept
\* points: changing the logits, label or tutor output of a point with
\* W = 0 changes none of them.
C12_AlphaMaskKeepsValidPoints ==
  dpc = "done" =>
    LET K == Kept(data)
    IN /\ Len(device_out.X) = Cardinality(K)
       /\ Len(device_out.Y) = Cardinality(K)
       /\ Len(device_out.T) = Cardinality(K)
       /\ \A p \in K :
            LET k == Cardinality({ q \in K : q <= p })
            IN /\ device_out.X[k] = data.X[p]
               /\ device_out.Y[k] = data.Y[p]
               /\ device_out.T[k] = data.T[p]
       /\ \A p \in (1..Len(data.W)) \ K : \A r \in DeviceRows :
            DeviceResult(Replaced(data, p, r), DeviceConfig) = device_out

\* The scenario of four points with W = [1, 1, 0, 1]: three points are kept.
C12_Witness ==
  /\ dpc = "done"
  /\ data.W = <<1, 1, 0, 1>>
  /\ Len(device_out.X) = 3
  /\ device_out.Y = <<data.Y[1], data.Y[2], data.Y[4]>>
  /\ data.Y[3] # data.Y[4]

\* The value of the structure at address a of heap h: its stages' widths.
Deref(h, a) == [k \in 1..Len(h[a].items) |-> h[h[a].items[k]].items]

\* The addresses of the objects of the structure at a: itself and its stages.
Objects(h, a) == {a} \cup { h[a].items[k] : k \in 1..Len(h[a].items) }

\* The structure value v with the width w appended to its last stage.
WithOutput(v, w) == [v EXCEPT ![Len(v)] = Append(@, w)]

\* C15: once the outputs are appended, and through the loop over any number
\* of devices, the structures of the config are as loaded, the network's
\* structure is its base with the class count appended once to the last
\* stage, the tutor's is its own base (the network's when none is
\* configured) with 1 appended once, and the two share no object with each
\* other or with the config.
C15_StructuresAreIndependentCopies ==
  spc \in {"devices", "done"} =>
    LET loaded == structures.loaded
        n == structures.network_structure
        t == structures.tutor_structure
        tutor_base == IF structures.config_tutor # 0
                      THEN structures.config_tutor
                      ELSE structures.config_network
    IN /\ \A a \in 1..Len(loaded) : heap[a] = loaded[a]
       /\ Deref(heap, n) =
            WithOutput(Deref(loaded, structures.config_network), Len(classes))
       /\ Deref(heap, t) = WithOutput(Deref(loaded, tutor_base), 1)
       /\ Objects(heap, n) \cap Objects(heap, t) = {}
       /\ (Objects(heap, n) \cup Objects(heap, t)) \cap (1..Len(loaded)) = {}
       /\ \A k \in 1..Len(structures.passed) : structures.passed[k] = <<n, t>>

\* Two devices, no tutor structure configured: both structures come from
\* <<<<2>>, <<3>>>>.
C15_Witness ==
  /\ spc = "done"
  /\ config.gpus = 2
  /\ Len(structures.passed) = 2
  /\ structures.config_tutor = 0
  /\ Deref(heap, structures.network_structure) = <<<<2>>, <<3, Len(classes)>>>>
  /\ Deref(heap, structures.tutor_structure) = <<<<2>>, <<3, 1>>>>

\* The k-th smallest member of a set of integers.
Nth(S, k) == CHOOSE x \in S : Cardinality({ y \in S : y <= x }) = k

\* The structure the export is said to write for the names vs.
ExpectedExport(vs) ==
  LET ms == { n \in vs : n.scope = "Network" /\ n.role \in {"Weights", "Biases"} }
      convs == { n.conv : n \in ms }
      layers(c) == { n.layer : n \in { m \in ms : m.conv = c } }
      record(c, l) ==
        LET ps == { n \in ms : n.conv = c /\ n.layer = l }
        IN [ key \in { Lower(n.role) : n \in ps } |->
               [of |-> CHOOSE n \in ps : Lower(n.role) = key] ]
  IN [ i \in 1..Cardinality(convs) |->
         [ j \in 1..Cardinality(layers(Nth(convs, i))) |->
             record(Nth(convs, i), Nth(layers(Nth(convs, i)), j)) ] ]

\* C16: for any set of parameter names, the indices not forming 0..k-1
\* included, the export ends without an error and writes one entry per
\* convolution index present, ascending, each with one record per layer index
\* present, ascending, mapping 'weights' and 'biases' to the values of the
\* parameters of that convolution, layer and role; other names are left out.
C16_ExportNestedStructure ==
  epc = "done" =>
    /\ yaml.raised = "none"
    /\ yaml.output = ExpectedExport(variables)

\* The trainable variables of a scope.
VariablesOf(scope) ==
  { [ scope |-> TrainableVariables[p].scope, name |-> TrainableVariables[p].name ] :
      p \in { q \in 1..Len(TrainableVariables) :
                TrainableVariables[q].scope = scope } }

\* C17: the main optimizer changes only parameters of the network and the
\* tutor optimizer only parameters of the tutor, so none is changed by both,
\* on one device (where the entries without gradient stay in the list) and
\* on several (merged).
C17_OptimisersUpdateOwnParameters ==
  gpc = "applied" =>
    /\ updated.mesh \subseteq VariablesOf("Network")
    /\ updated.tutor \subseteq VariablesOf("Tutor")
    /\ updated.mesh \cap updated.tutor = {}
    /\ updated.mesh # {} /\ updated.tutor # {}
    /\ config.gpus = 1 =>
         /\ Len(ops.grads.x) = Len(TrainableVariables)
         /\ Len(ops.grads.t) = Len(TrainableVariables)

\* One device: the list of the network's optimizer still holds the entry of
\* the tutor's variable, without gradient, and the variable is not changed.
C17_Witness ==
  /\ gpc = "applied"
  /\ config.gpus = 1
  /\ ops.grads.x[2][1] = None /\ ops.grads.x[2][2].scope = "Tutor"
  /\ ops.grads.t[1][1] = None /\ ops.grads.t[1][2].scope = "Network"
  /\ updated.mesh = VariablesOf("Network")
  /\ updated.tutor = VariablesOf("Tutor")

\* The batches the training iterator delivers in all.
Delivered == Repeat(config.batches, config.epochs)

\* The global step the loop starts from.
StartStep ==
  IF config.checkpoint0.state = "valid" THEN config.checkpoint0.step ELSE 0

\* C18: a completed training step takes one batch per device from the
\* training iterator; the step that meets its exhaustion changes neither the
\* parameters nor the global step, and by then floor(B / N) steps were
\* completed and counted for B batches delivered and N devices; no other
\* part of the loop, the validation step included, takes a training batch.
C18_DevicesDrawSeparateBatches ==
  [][ /\ (pc = "train" /\ pc' = "validate")
           => training_dataset' = training_dataset - config.gpus
      /\ (pc = "train" /\ raised' = "OutOfRangeError")
           => /\ training_dataset < config.gpus
              /\ global_step' = global_step /\ params' = params
              /\ Count(log', "train") = Delivered \div config.gpus
              /\ global_step' = StartStep + Delivered \div config.gpus
      /\ pc \notin {"start", "train"}
           => training_dataset' = training_dataset ]_vars

\* Three batches, two devices: one step is completed and counted, the second
\* finds the iterator exhausted after the third batch was drawn.
C18_Witness ==
  /\ pc = "exhausted"
  /\ raised = "OutOfRangeError"
  /\ config.gpus = 2
  /\ Delivered = 3
  /\ Count(log, "train") = 1
  /\ Count(log, "validate") = 1
  /\ global_step = StartStep + 1
  /\ training_dataset = 0

====
